---- MODULE Spec2Model ----
(***************************************************************************)
(* Model of src/src/index.ts: the PDFCoordinatesExtractor class and the    *)
(* `extract` and `scan` commands of the pdf-coordinate-extractor CLI.      *)
(*                                                                         *)
(* Strings are sequences of one-character strings.  A run's T is a         *)
(* sequence of URI-encoded units: "%20" is the escape of a space and "%"   *)
(* is a stray percent sign (a malformed escape).  Numbers are integers and *)
(* the two scale factors are exact fractions [n, d] with d > 0; floating   *)
(* point error and NaN are outside the model.                              *)
(***************************************************************************)
EXTENDS Integers, Sequences, FiniteSets, TLC

VARIABLES
    cmd,         \* the subcommand of this run: "extract" or "scan"
    options,     \* the options object commander hands to the action
    fs,          \* the files: the PDF, the keywords file, the --output file
    pc,          \* where the action is
    exitCode,    \* None while the process runs, then Some(code)
    keywords,    \* PDFCoordinatesExtractor.keywords
    template,    \* templateX, templateY, templateWidth, templateHeight
    pdfData,     \* what parsePDF resolved with, None before
    scale,       \* the locals scaleX and scaleY, None before they are set
    results,     \* the list extractCoordinates returns (coordinates)
    allText,     \* the list listAllText returns
    mapping,     \* the object the last reduce of generateJSON/generateArray built
    stdout,      \* console.log, one tag per call site
    stderr       \* console.error, one tag per call site

vars == <<cmd, options, fs, pc, exitCode, keywords, template, pdfData, scale,
          results, allText, mapping, stdout, stderr>>

----------------------------------------------------------------------------
(* Bounds of the model *)

MaxFragments == 2
MaxKeywords == 2

(* textRun.TS ? textRun.TS[1] * scaleY : 12 * scaleY *)
DefaultFontSize == 12

----------------------------------------------------------------------------
(* JavaScript values *)

None == <<>>
Some(v) == <<v>>
Val(o) == o[1]

(* Truthiness of a number | undefined: undefined and 0 are falsy *)
TruthyNumber(o) == o # None /\ Val(o) # 0

(* Truthiness of a string | undefined: undefined and "" are falsy *)
TruthyString(o) == o # None /\ Val(o) # <<>>

SeqsUpTo(S, n) == UNION {[1..k -> S] : k \in 0..n}

----------------------------------------------------------------------------
(* String functions *)

DigitValue(c) ==
    CASE c = "0" -> 0 [] c = "1" -> 1 [] c = "2" -> 2 [] c = "3" -> 3
      [] c = "4" -> 4 [] c = "5" -> 5 [] c = "6" -> 6 [] c = "7" -> 7
      [] c = "8" -> 8 [] c = "9" -> 9

(* parseFloat of a string of decimal digits *)
RECURSIVE ParseFloat(_)
ParseFloat(s) ==
    IF s = <<>> THEN 0
    ELSE 10 * ParseFloat(SubSeq(s, 1, Len(s) - 1)) + DigitValue(s[Len(s)])

(* decodeURIComponent throws URIError on a malformed escape *)
DecodeThrows(T) == \E i \in 1..Len(T) : T[i] = "%"

DecodeChar(u) == IF u = "%20" THEN " " ELSE u

DecodeURIComponent(T) == [i \in 1..Len(T) |-> DecodeChar(T[i])]

RECURSIVE TrimStart(_)
TrimStart(s) ==
    IF s # <<>> /\ s[1] = " " THEN TrimStart(Tail(s)) ELSE s

RECURSIVE TrimEnd(_)
TrimEnd(s) ==
    IF s # <<>> /\ s[Len(s)] = " " THEN TrimEnd(SubSeq(s, 1, Len(s) - 1)) ELSE s

Trim(s) == TrimEnd(TrimStart(s))

LowerChar(c) ==
    CASE c = "A" -> "a" [] c = "B" -> "b" [] OTHER -> c

ToLowerCase(s) == [i \in 1..Len(s) |-> LowerChar(s[i])]

(* String.prototype.includes *)
Includes(s, k) ==
    \E i \in 0..(Len(s) - Len(k)) : SubSeq(s, i + 1, i + Len(k)) = k

----------------------------------------------------------------------------
(* Numbers *)

(* Math.round of the fraction num/den, den > 0: the nearest integer, a tie  *)
(* going up.                                                                *)
MathRound(num, den) == (2 * num + den) \div (2 * den)

(* Math.round(origin + raw * s) for the scale factor s *)
RoundScaled(origin, raw, s) == MathRound(origin * s.d + raw * s.n, s.d)

(* const scaleX = templateWidth / page.Width *)
ScaleX(templateWidth, page) == [n |-> templateWidth, d |-> page.Width]

ScaleYOverPageHeight(templateHeight, page, scaleX) ==
    IF templateHeight # None
    THEN [n |-> Val(templateHeight), d |-> page.Height]
    ELSE [n |-> scaleX.n, d |-> page.Height]

(* const scaleY = templateHeight ? templateHeight / page.Height : scaleX *)
ScaleY(templateHeight, page, scaleX) ==
    IF TruthyNumber(templateHeight)
    THEN [n |-> Val(templateHeight), d |-> page.Height]
    ELSE scaleX

----------------------------------------------------------------------------
(* PDFCoordinatesExtractor.extractCoordinates, after the parser resolved *)

(* The keyword loop of one fragment: the index of the keyword that matched, *)
(* 0 if the loop ended without a match, -1 if kwMap.keyword.toLowerCase()   *)
(* threw a TypeError (an entry without a keyword string).                   *)
RECURSIVE KeywordLoopNoBreak(_, _, _, _)
KeywordLoopNoBreak(text, kws, j, found) ==
    IF j > Len(kws) THEN found
    ELSE IF kws[j].keyword = None THEN -1
    ELSE IF Includes(ToLowerCase(text), ToLowerCase(Val(kws[j].keyword)))
         THEN KeywordLoopNoBreak(text, kws, j + 1, j)
         ELSE KeywordLoopNoBreak(text, kws, j + 1, found)

KeywordLoopLastWins(text, kws, j) == KeywordLoopNoBreak(text, kws, j, 0)

RECURSIVE KeywordLoopKeywordAsIs(_, _, _)
KeywordLoopKeywordAsIs(text, kws, j) ==
    IF j > Len(kws) THEN 0
    ELSE IF kws[j].keyword = None THEN -1
    ELSE IF Includes(ToLowerCase(text), Val(kws[j].keyword)) THEN j
    ELSE KeywordLoopKeywordAsIs(text, kws, j + 1)

RECURSIVE KeywordLoop(_, _, _)
KeywordLoop(text, kws, j) ==
    IF j > Len(kws) THEN 0
    ELSE IF kws[j].keyword = None THEN -1
    ELSE IF Includes(ToLowerCase(text), ToLowerCase(Val(kws[j].keyword))) THEN j
    ELSE KeywordLoop(text, kws, j + 1)

(* textRun.TS ? textRun.TS[1] : 12 (TS is [faceId, size, bold, italic]) *)
RawHeight(textRun) ==
    IF textRun.TS # None THEN Val(textRun.TS)[2] ELSE DefaultFontSize

MakeResultFlippedY(page, tpl, textItem, textRun, field, text) ==
    LET scaleX == ScaleX(tpl.templateWidth, page)
        scaleY == ScaleY(tpl.templateHeight, page, scaleX)
    IN  [field |-> field,
         x |-> RoundScaled(tpl.templateX, textItem.x, scaleX),
         y |-> RoundScaled(tpl.templateY, page.Height - textItem.y, scaleY),
         width |-> RoundScaled(0, textItem.w, scaleX),
         height |-> RoundScaled(0, RawHeight(textRun), scaleY),
         matchText |-> text]

(* The object pushed to results *)
MakeResult(page, tpl, textItem, textRun, field, text) ==
    LET scaleX == ScaleX(tpl.templateWidth, page)
        scaleY == ScaleY(tpl.templateHeight, page, scaleX)
    IN  [field |-> field,
         x |-> RoundScaled(tpl.templateX, textItem.x, scaleX),
         y |-> RoundScaled(tpl.templateY, textItem.y, scaleY),
         width |-> RoundScaled(0, textItem.w, scaleX),
         height |-> RoundScaled(0, RawHeight(textRun), scaleY),
         matchText |-> text]

NoResult ==
    [field |-> "", x |-> 0, y |-> 0, width |-> 0, height |-> 0, matchText |-> <<>>]

RunStepNoEmptyCheck(page, tpl, kws, textItem, textRun) ==
    IF DecodeThrows(textRun.T) THEN [kind |-> "throw", result |-> NoResult]
    ELSE LET text == Trim(DecodeURIComponent(textRun.T))
             j == KeywordLoop(text, kws, 1)
         IN  IF j = -1 THEN [kind |-> "throw", result |-> NoResult]
             ELSE IF j = 0 THEN [kind |-> "continue", result |-> NoResult]
             ELSE [kind |-> "push",
                   result |-> MakeResult(page, tpl, textItem, textRun,
                                         kws[j].field, text)]

(* The body of `for (const textRun of textItem.R)` *)
RunStep(page, tpl, kws, textItem, textRun) ==
    IF DecodeThrows(textRun.T) THEN [kind |-> "throw", result |-> NoResult]
    ELSE LET text == Trim(DecodeURIComponent(textRun.T))
         IN  IF Len(text) = 0 THEN [kind |-> "continue", result |-> NoResult]
             ELSE LET j == KeywordLoop(text, kws, 1)
                  IN  IF j = -1 THEN [kind |-> "throw", result |-> NoResult]
                      ELSE IF j = 0 THEN [kind |-> "continue", result |-> NoResult]
                      ELSE [kind |-> "push",
                            result |-> MakeResult(page, tpl, textItem, textRun,
                                                  kws[j].field, text)]

RECURSIVE RunLoop(_, _, _, _, _, _)
RunLoop(page, tpl, kws, textItem, r, acc) ==
    IF acc.threw \/ r > Len(textItem.R) THEN acc
    ELSE LET step == RunStep(page, tpl, kws, textItem, textItem.R[r])
         IN  IF step.kind = "throw" THEN [acc EXCEPT !.threw = TRUE]
             ELSE IF step.kind = "continue"
                  THEN RunLoop(page, tpl, kws, textItem, r + 1, acc)
                  ELSE RunLoop(page, tpl, kws, textItem, r + 1,
                               [acc EXCEPT !.results = Append(@, step.result)])

RECURSIVE ItemLoop(_, _, _, _, _)
ItemLoop(page, tpl, kws, i, acc) ==
    IF acc.threw \/ i > Len(Val(page.Texts)) THEN acc
    ELSE ItemLoop(page, tpl, kws, i + 1,
                  RunLoop(page, tpl, kws, Val(page.Texts)[i], 1, acc))

(* !pdfData.Pages || pdfData.Pages.length === 0 *)
NoPages(data) == data.Pages = None \/ Len(Val(data.Pages)) = 0

(* Lines 78-120: [threw, results] *)
ExtractCoordinates(data, tpl, kws) ==
    IF NoPages(data) THEN [threw |-> TRUE, results |-> <<>>]
    ELSE LET page == Val(data.Pages)[1]
         IN  IF page.Texts = None THEN [threw |-> FALSE, results |-> <<>>]
             ELSE ItemLoop(page, tpl, kws, 1, [threw |-> FALSE, results |-> <<>>])

----------------------------------------------------------------------------
(* PDFCoordinatesExtractor.listAllText, after the parser resolved *)

ListStepFlippedY(page, tpl, textItem, textRun) ==
    IF DecodeThrows(textRun.T) THEN [kind |-> "throw", text |-> <<>>, x |-> 0, y |-> 0]
    ELSE LET text == Trim(DecodeURIComponent(textRun.T))
             scaleX == ScaleX(tpl.templateWidth, page)
             scaleY == ScaleY(tpl.templateHeight, page, scaleX)
         IN  IF Len(text) > 0
             THEN [kind |-> "push", text |-> text,
                   x |-> RoundScaled(tpl.templateX, textItem.x, scaleX),
                   y |-> RoundScaled(tpl.templateY, page.Height - textItem.y, scaleY)]
             ELSE [kind |-> "continue", text |-> <<>>, x |-> 0, y |-> 0]

(* The body of the inner loop: what is pushed to allText, if anything *)
ListStep(page, tpl, textItem, textRun) ==
    IF DecodeThrows(textRun.T) THEN [kind |-> "throw", text |-> <<>>, x |-> 0, y |-> 0]
    ELSE LET text == Trim(DecodeURIComponent(textRun.T))
             scaleX == ScaleX(tpl.templateWidth, page)
             scaleY == ScaleY(tpl.templateHeight, page, scaleX)
         IN  IF Len(text) > 0
             THEN [kind |-> "push", text |-> text,
                   x |-> RoundScaled(tpl.templateX, textItem.x, scaleX),
                   y |-> RoundScaled(tpl.templateY, textItem.y, scaleY)]
             ELSE [kind |-> "continue", text |-> <<>>, x |-> 0, y |-> 0]

RECURSIVE ListRunLoop(_, _, _, _, _)
ListRunLoop(page, tpl, textItem, r, acc) ==
    IF acc.threw \/ r > Len(textItem.R) THEN acc
    ELSE LET step == ListStep(page, tpl, textItem, textItem.R[r])
         IN  IF step.kind = "throw" THEN [acc EXCEPT !.threw = TRUE]
             ELSE IF step.kind = "continue"
                  THEN ListRunLoop(page, tpl, textItem, r + 1, acc)
                  ELSE ListRunLoop(page, tpl, textItem, r + 1,
                           [acc EXCEPT !.results =
                               Append(@, [text |-> step.text, x |-> step.x, y |-> step.y])])

RECURSIVE ListItemLoop(_, _, _, _)
ListItemLoop(page, tpl, i, acc) ==
    IF acc.threw \/ i > Len(Val(page.Texts)) THEN acc
    ELSE ListItemLoop(page, tpl, i + 1,
                      ListRunLoop(page, tpl, Val(page.Texts)[i], 1, acc))

(* Lines 132-157: [threw, results] *)
ListAllText(data, tpl) ==
    IF NoPages(data) THEN [threw |-> TRUE, results |-> <<>>]
    ELSE LET page == Val(data.Pages)[1]
         IN  IF page.Texts = None THEN [threw |-> FALSE, results |-> <<>>]
             ELSE ListItemLoop(page, tpl, 1, [threw |-> FALSE, results |-> <<>>])

----------------------------------------------------------------------------
(* generateArray, generateJSON and JSON.stringify *)

(* An object is the sequence of its own properties in insertion order *)
HasKey(acc, key) == \E i \in 1..Len(acc) : acc[i].key = key

AssignKeepFirst(acc, key, value) ==
    IF HasKey(acc, key) THEN acc
    ELSE Append(acc, [key |-> key, value |-> value])

(* acc[key] = value *)
Assign(acc, key, value) ==
    IF HasKey(acc, key)
    THEN [i \in 1..Len(acc) |->
            IF acc[i].key = key THEN [key |-> key, value |-> value] ELSE acc[i]]
    ELSE Append(acc, [key |-> key, value |-> value])

(* The record both reducers store under coord.field *)
JSONResultOf(coord) ==
    [x |-> coord.x, y |-> coord.y, width |-> coord.width,
     height |-> coord.height, matchText |-> coord.matchText]

RECURSIVE Reduce(_, _, _)
Reduce(coordinates, i, acc) ==
    IF i > Len(coordinates) THEN acc
    ELSE Reduce(coordinates, i + 1,
                Assign(acc, coordinates[i].field, JSONResultOf(coordinates[i])))

(* generateArray(coordinates): the field-keyed object *)
GenerateArray(coordinates) == Reduce(coordinates, 1, <<>>)

(* The text JSON.stringify produces, as its sequence of tokens *)
Punct(s) == [kind |-> "punct", s |-> s, n |-> 0, t |-> <<>>]
Key(s) == [kind |-> "key", s |-> s, n |-> 0, t |-> <<>>]
Num(n) == [kind |-> "number", s |-> "", n |-> n, t |-> <<>>]
Str(t) == [kind |-> "string", s |-> "", n |-> 0, t |-> t]

StringifyResultSwapped(r) ==
    <<Punct("{"), Key("x"), Num(r.y), Key("y"), Num(r.x),
      Key("width"), Num(r.width), Key("height"), Num(r.height),
      Key("matchText"), Str(r.matchText), Punct("}")>>

StringifyResult(r) ==
    <<Punct("{"), Key("x"), Num(r.x), Key("y"), Num(r.y),
      Key("width"), Num(r.width), Key("height"), Num(r.height),
      Key("matchText"), Str(r.matchText), Punct("}")>>

RECURSIVE StringifyEntries(_, _)
StringifyEntries(obj, i) ==
    IF i > Len(obj) THEN <<>>
    ELSE <<Key(obj[i].key)>> \o StringifyResult(obj[i].value)
            \o StringifyEntries(obj, i + 1)

(* JSON.stringify(generateArray(coordinates), null, 2) *)
StringifyMapping(obj) ==
    <<Punct("{")>> \o StringifyEntries(obj, 1) \o <<Punct("}")>>

(* generateJSON(coordinates): JSON.stringify({coordinates: ...}, null, 2) *)
GenerateJSON(coordinates) ==
    <<Punct("{"), Key("coordinates")>>
        \o StringifyMapping(GenerateArray(coordinates)) \o <<Punct("}")>>

----------------------------------------------------------------------------
(* PDFCoordinatesExtractor.loadKeywords *)

(* A keywords file: whether the path exists, whether its content parses as  *)
(* JSON, whether the parsed value is null, and its keywords member, whose   *)
(* type is "undefined" (no such member), "string" or "array".               *)
MemberTruthy(member) ==
    /\ member.type # "undefined"
    /\ ~(member.type = "string" /\ member.elems = <<>>)

IsArray(member) == member.type = "array"

LoadKeywordsNoArrayCheck(file) ==
    IF ~file.exists \/ ~file.validJSON \/ file.isNull
    THEN [threw |-> TRUE, keywords |-> <<>>]
    ELSE [threw |-> FALSE, keywords |-> file.keywords.elems]

(* [threw, keywords]: whether loadKeywords throws, else what it assigns *)
LoadKeywords(file) ==
    IF ~file.exists THEN [threw |-> TRUE, keywords |-> <<>>]
    ELSE IF ~file.validJSON THEN [threw |-> TRUE, keywords |-> <<>>]
    ELSE IF file.isNull THEN [threw |-> TRUE, keywords |-> <<>>]
    ELSE IF ~MemberTruthy(file.keywords) \/ ~IsArray(file.keywords)
         THEN [threw |-> TRUE, keywords |-> <<>>]
    ELSE [threw |-> FALSE, keywords |-> file.keywords.elems]

----------------------------------------------------------------------------
(* The commands *)

(* Lines 234-239 and 324-329 *)
ParseTemplate(opts) ==
    [templateX |-> ParseFloat(opts.templateX),
     templateY |-> ParseFloat(opts.templateY),
     templateWidth |-> ParseFloat(opts.templateWidth),
     templateHeight |-> IF TruthyString(opts.templateHeight)
                        THEN Some(ParseFloat(Val(opts.templateHeight)))
                        ELSE None]

(* The locals scaleX and scaleY of extractCoordinates and listAllText *)
Scales(data, tpl) ==
    LET page == Val(data.Pages)[1]
        scaleX == ScaleX(tpl.templateWidth, page)
    IN  Some([x |-> scaleX, y |-> ScaleY(tpl.templateHeight, page, scaleX)])

NeverEmpty(coordinates) == Len(coordinates) < 0

(* coordinates.length === 0 *)
IsEmpty(coordinates) == Len(coordinates) = 0

(* process.exit(code), and the normal end of the action with code 0 *)
Exit(code) ==
    /\ pc' = "exited"
    /\ exitCode' = Some(code)

CatchWithoutExitCode ==
    /\ stderr' = Append(stderr, "Error:")
    /\ Exit(0)

(* catch (error) { console.error("Error:", error.message); process.exit(1) } *)
Catch ==
    /\ stderr' = Append(stderr, "Error:")
    /\ Exit(1)

(* extract: if (!existsSync(pdfFile)) ... *)
ExtractCheckPdf ==
    /\ pc = "start"
    /\ cmd = "extract"
    /\ IF ~fs.pdfExists
       THEN /\ stderr' = Append(stderr, "PDF file not found")
            /\ Exit(1)
       ELSE /\ pc' = "loadKeywords"
            /\ UNCHANGED <<stderr, exitCode>>
    /\ UNCHANGED <<cmd, options, fs, keywords, template, pdfData, scale, results,
                   allText, mapping, stdout>>

ExtractLoadKeywordsNotAwaited ==
    /\ pc = "loadKeywords"
    /\ LET r == LoadKeywords(fs.keywordsFile)
       IN  IF r.threw
           THEN /\ stderr' = Append(stderr, "Error loading keywords")
                /\ Exit(1)
           ELSE /\ pc' = "callExtract"
                /\ UNCHANGED <<stderr, exitCode>>
    /\ UNCHANGED <<cmd, options, fs, keywords, template, pdfData, scale, results,
                   allText, mapping, stdout>>

(* extract: await extractor.loadKeywords(options.keywords), in its own try *)
ExtractLoadKeywords ==
    /\ pc = "loadKeywords"
    /\ LET r == LoadKeywords(fs.keywordsFile)
       IN  IF r.threw
           THEN /\ stderr' = Append(stderr, "Error loading keywords")
                /\ Exit(1)
                /\ UNCHANGED keywords
           ELSE /\ keywords' = r.keywords
                /\ pc' = "callExtract"
                /\ UNCHANGED <<stderr, exitCode>>
    /\ UNCHANGED <<cmd, options, fs, template, pdfData, scale, results, allText,
                   mapping, stdout>>

(* extract: the options are parsed and logged, extractCoordinates is called *)
(* and runs up to `await this.parsePDF(pdfPath)`                            *)
ExtractStart ==
    /\ pc = "callExtract"
    /\ template' = ParseTemplate(options)
    /\ stdout' = stdout \o <<"Searching for keywords in:", "Template parameters:">>
    /\ IF Len(keywords) = 0
       THEN Catch
       ELSE /\ pc' = "parsing"
            /\ UNCHANGED <<stderr, exitCode>>
    /\ UNCHANGED <<cmd, options, fs, keywords, pdfData, scale, results, allText,
                   mapping>>

(* pdfParser_dataReady: the promise of parsePDF resolves *)
ParserDataReady ==
    /\ pc = "parsing"
    /\ ~fs.pdf.parserError
    /\ pdfData' = Some(fs.pdf.data)
    /\ pc' = IF cmd = "extract" THEN "matching" ELSE "listing"
    /\ UNCHANGED <<cmd, options, fs, exitCode, keywords, template, scale, results,
                   allText, mapping, stdout, stderr>>

(* pdfParser_dataError: the promise rejects and the action's catch runs *)
ParserDataError ==
    /\ pc = "parsing"
    /\ fs.pdf.parserError
    /\ Catch
    /\ UNCHANGED <<cmd, options, fs, keywords, template, pdfData, scale, results,
                   allText, mapping, stdout>>

(* extract: the rest of extractCoordinates *)
ExtractMatch ==
    /\ pc = "matching"
    /\ LET r == ExtractCoordinates(Val(pdfData), template, keywords)
       IN  /\ scale' = IF NoPages(Val(pdfData)) THEN scale
                       ELSE Scales(Val(pdfData), template)
           /\ IF r.threw
              THEN /\ Catch
                   /\ UNCHANGED results
              ELSE /\ results' = r.results
                   /\ pc' = "report"
                   /\ UNCHANGED <<stderr, exitCode>>
    /\ UNCHANGED <<cmd, options, fs, keywords, template, pdfData, allText, mapping,
                   stdout>>

(* extract: lines 256-280, the empty check and the console report *)
ExtractReport ==
    /\ pc = "report"
    /\ IF IsEmpty(results)
       THEN /\ stdout' = Append(stdout, "No matching keywords found.")
            /\ Exit(1)
            /\ UNCHANGED mapping
       ELSE /\ IF options.format = "array"
               THEN /\ stdout' = stdout \o <<"Found coordinates:", "PHP Array:">>
                    /\ UNCHANGED mapping
               ELSE /\ stdout' = stdout \o <<"Found coordinates:", "JSON:">>
                    /\ mapping' = GenerateArray(results)
            /\ pc' = "save"
            /\ UNCHANGED exitCode
    /\ UNCHANGED <<cmd, options, fs, keywords, template, pdfData, scale, results,
                   allText, stderr>>

(* extract: lines 282-297, then the action returns and the process ends *)
ExtractSave ==
    /\ pc = "save"
    /\ IF options.output
       THEN IF fs.writable
            THEN /\ fs' = [fs EXCEPT !.output =
                            Some(IF options.format = "array"
                                 THEN StringifyMapping(GenerateArray(results))
                                 ELSE GenerateJSON(results))]
                 /\ mapping' = GenerateArray(results)
                 /\ stdout' = Append(stdout, "Saved to:")
                 /\ Exit(0)
                 /\ UNCHANGED stderr
            ELSE /\ mapping' = GenerateArray(results)
                 /\ Catch
                 /\ UNCHANGED <<fs, stdout>>
       ELSE /\ Exit(0)
            /\ UNCHANGED <<fs, mapping, stdout, stderr>>
    /\ UNCHANGED <<cmd, options, keywords, template, pdfData, scale, results,
                   allText>>

(* scan: the options are parsed, listAllText is called and awaits parsePDF *)
ScanStart ==
    /\ pc = "start"
    /\ cmd = "scan"
    /\ template' = ParseTemplate(options)
    /\ pc' = "parsing"
    /\ UNCHANGED <<cmd, options, fs, exitCode, keywords, pdfData, scale, results,
                   allText, mapping, stdout, stderr>>

(* scan: the rest of listAllText *)
ScanList ==
    /\ pc = "listing"
    /\ LET r == ListAllText(Val(pdfData), template)
       IN  /\ scale' = IF NoPages(Val(pdfData)) THEN scale
                       ELSE Scales(Val(pdfData), template)
           /\ IF r.threw
              THEN /\ Catch
                   /\ UNCHANGED allText
              ELSE /\ allText' = r.results
                   /\ pc' = "scanPrint"
                   /\ UNCHANGED <<stderr, exitCode>>
    /\ UNCHANGED <<cmd, options, fs, keywords, template, pdfData, results, mapping,
                   stdout>>

(* allText.filter(item => item.text.toLowerCase().includes(filter.toLowerCase())) *)
FilterText(list, filter) ==
    LET Keep(item) == Includes(ToLowerCase(item.text), ToLowerCase(Val(filter)))
    IN  IF TruthyString(filter) THEN SelectSeq(list, Keep) ELSE list

(* scan: lines 339-357, then the action returns and the process ends *)
ScanPrint ==
    /\ pc = "scanPrint"
    /\ stdout' = stdout \o <<"Text found in PDF:", "Using template parameters:",
                             "Total text items:">>
                        \o [i \in 1..Len(FilterText(allText, options.filter)) |-> "item"]
    /\ Exit(0)
    /\ UNCHANGED <<cmd, options, fs, keywords, template, pdfData, scale, results,
                   allText, mapping, stderr>>

Next ==
    \/ ExtractCheckPdf
    \/ ExtractLoadKeywords
    \/ ExtractStart
    \/ ParserDataReady
    \/ ParserDataError
    \/ ExtractMatch
    \/ ExtractReport
    \/ ExtractSave
    \/ ScanStart
    \/ ScanList
    \/ ScanPrint

----------------------------------------------------------------------------
(* The inputs of a run: the command line and the files *)

Fields == {"f1", "f2"}

(* Keyword entries: a keyword that every text contains, one that needs both *)
(* sides lowered to match, and an entry without a keyword string            *)
KeywordEntries ==
    {[field |-> f, keyword |-> Some(<<"A", "b">>)] : f \in Fields}
        \cup {[field |-> "f1", keyword |-> Some(<<>>)],
              [field |-> "f1", keyword |-> None]}

BaseKeywords == <<[field |-> "f1", keyword |-> Some(<<"A", "b">>)]>>

ArrayMember(list) == [type |-> "array", elems |-> list]

KeywordsFile(list) ==
    [exists |-> TRUE, validJSON |-> TRUE, isNull |-> FALSE, keywords |-> ArrayMember(list)]

(* Files loadKeywords rejects, and the ones with a short keyword list *)
FlowKeywordsFiles ==
    {[exists |-> FALSE, validJSON |-> FALSE, isNull |-> FALSE, keywords |-> ArrayMember(<<>>)],
     [exists |-> TRUE, validJSON |-> FALSE, isNull |-> FALSE, keywords |-> ArrayMember(<<>>)],
     [exists |-> TRUE, validJSON |-> TRUE, isNull |-> TRUE, keywords |-> ArrayMember(<<>>)],
     [exists |-> TRUE, validJSON |-> TRUE, isNull |-> FALSE,
      keywords |-> [type |-> "undefined", elems |-> <<>>]],
     [exists |-> TRUE, validJSON |-> TRUE, isNull |-> FALSE,
      keywords |-> [type |-> "string", elems |-> <<>>]],
     [exists |-> TRUE, validJSON |-> TRUE, isNull |-> FALSE,
      keywords |-> [type |-> "string", elems |-> <<"A", "b">>]],
     KeywordsFile(<<>>),
     KeywordsFile(BaseKeywords),
     KeywordsFile(<<[field |-> "f1", keyword |-> None]>>)}

MatchKeywordsFiles == {KeywordsFile(l) : l \in SeqsUpTo(KeywordEntries, MaxKeywords)}

(* Run texts: blank, "aB" behind a space, "B a", and a malformed escape *)
BlankText == <<"%20">>
BaseText == <<"%20", "a", "B">>
MatchTexts == {BlankText, BaseText, <<"B", "%20", "a">>}
MalformedText == <<"%">>

Run(T, TS) == [T |-> T, TS |-> TS]
Item(x, y, w, R) == [x |-> x, y |-> y, w |-> w, R |-> R]
Page(W, H, Texts) == [Width |-> W, Height |-> H, Texts |-> Texts]
Parsed(pages) == [parserError |-> FALSE, data |-> [Pages |-> pages]]

LetterPage(Texts) == Page(612, 792, Texts)
BaseItem(R) == Item(100, 700, 51, R)

RECURSIVE TotalRuns(_)
TotalRuns(items) ==
    IF items = <<>> THEN 0 ELSE Len(items[1].R) + TotalRuns(Tail(items))

(* Every split of at most MaxFragments runs into text items *)
MatchItems ==
    {BaseItem(R) : R \in SeqsUpTo({Run(T, None) : T \in MatchTexts}, MaxFragments) \ {<<>>}}

MatchPdfs ==
    {Parsed(Some(<<LetterPage(Some(items))>>)) :
        items \in {t \in SeqsUpTo(MatchItems, MaxFragments) : TotalRuns(t) <= MaxFragments}}

FlowPdfs ==
    {[parserError |-> TRUE, data |-> [Pages |-> None]],
     Parsed(None),
     Parsed(Some(<<>>)),
     Parsed(Some(<<LetterPage(None)>>)),
     Parsed(Some(<<LetterPage(Some(<<BaseItem(<<Run(BlankText, None)>>)>>))>>)),
     Parsed(Some(<<LetterPage(Some(<<BaseItem(<<Run(BaseText, None)>>)>>))>>)),
     Parsed(Some(<<LetterPage(Some(<<BaseItem(<<Run(BaseText, None),
                                                  Run(MalformedText, None)>>)>>))>>))}

ScalePdfs ==
    {Parsed(Some(<<Page(size[1], size[2],
                        Some(<<Item(x, y, w, <<Run(BaseText, TS)>>)>>))>>)) :
        size \in {<<612, 792>>, <<792, 612>>},
        x \in {51, 100}, y \in {33, 700}, w \in {51, 60},
        TS \in {None, Some(<<0, 15, 0, 0>>)}}

Options(tx, ty, tw, th, output, format, filter) ==
    [templateX |-> tx, templateY |-> ty, templateWidth |-> tw, templateHeight |-> th,
     output |-> output, format |-> format, filter |-> filter]

Formats == {"json", "array"}

FlowOptions ==
    {Options(<<"0">>, <<"0">>, <<"2", "1", "0">>, None, o, f, None) :
        o \in BOOLEAN, f \in Formats}

MatchOptions ==
    {Options(<<"0">>, <<"0">>, <<"2", "1", "0">>, None, TRUE, f, None) : f \in Formats}

ScaleOptions ==
    {Options(tx, ty, <<"2", "1", "0">>, th, FALSE, "json", None) :
        tx \in {<<"0">>, <<"1", "0">>}, ty \in {<<"0">>, <<"5">>},
        th \in {None, Some(<<"0">>), Some(<<"2", "9", "7">>)}}

ScanOptions ==
    {Options(<<"1", "0">>, <<"5">>, <<"2", "1", "0">>, th, FALSE, "json", filter) :
        th \in {None, Some(<<"0">>), Some(<<"2", "9", "7">>)},
        filter \in {None, Some(<<"B">>)}}

Files(pdfExists, keywordsFile, pdf, writable) ==
    [pdfExists |-> pdfExists, keywordsFile |-> keywordsFile, pdf |-> pdf,
     writable |-> writable, output |-> None]

Input(c, o, f) == [cmd |-> c, options |-> o, fs |-> f]

(* Runs of extract that vary the files and the output options *)
FlowInputs ==
    {Input("extract", o, Files(e, k, p, w)) :
        o \in FlowOptions, e \in BOOLEAN, k \in FlowKeywordsFiles, p \in FlowPdfs,
        w \in BOOLEAN}

(* Runs of extract that vary the keyword list and the texts of the page *)
MatchInputs ==
    {Input("extract", o, Files(TRUE, k, p, TRUE)) :
        o \in MatchOptions, k \in MatchKeywordsFiles, p \in MatchPdfs}

(* Runs of extract that vary the template and the geometry of the page *)
ScaleInputs ==
    {Input("extract", o, Files(TRUE, KeywordsFile(BaseKeywords), p, TRUE)) :
        o \in ScaleOptions, p \in ScalePdfs}

(* Runs of scan; scan reads neither the keywords file nor --output *)
ScanInputs ==
    {Input("scan", o, Files(e, KeywordsFile(<<>>), p, TRUE)) :
        o \in ScanOptions, e \in BOOLEAN, p \in FlowPdfs \cup MatchPdfs \cup ScalePdfs}

Inputs == FlowInputs \cup MatchInputs \cup ScaleInputs \cup ScanInputs

Init ==
    /\ \E in \in Inputs :
        /\ cmd = in.cmd
        /\ options = in.options
        /\ fs = in.fs
    /\ pc = "start"
    /\ exitCode = None
    /\ keywords = <<>>
    /\ template = None
    /\ pdfData = None
    /\ scale = None
    /\ results = <<>>
    /\ allText = <<>>
    /\ mapping = <<>>
    /\ stdout = <<>>
    /\ stderr = <<>>

Spec == Init /\ [][Next]_vars

----------------------------------------------------------------------------
(* Vocabulary of the properties *)

(* extractCoordinates has returned its list and the action goes on *)
Returned == cmd = "extract" /\ pc \in {"report", "save"}

(* listAllText has returned its list *)
Listed == cmd = "scan" /\ pc = "scanPrint"

ThePage == Val(Val(pdfData).Pages)[1]

(* The fragments of a page in page order: every run with its text item *)
RECURSIVE Flatten(_)
Flatten(items) ==
    IF items = <<>> THEN <<>>
    ELSE [r \in 1..Len(items[1].R) |-> [item |-> items[1], run |-> items[1].R[r]]]
            \o Flatten(Tail(items))

Fragments(page) == IF page.Texts = None THEN <<>> ELSE Flatten(Val(page.Texts))

(* Nothing but spaces: empty after trimming *)
Blank(f) == \A i \in 1..Len(f.run.T) : f.run.T[i] = "%20"

FragmentText(f) == Trim(DecodeURIComponent(f.run.T))

(* The keyword entry has a keyword string and the fragment's text contains it *)
Contained(kw, f) ==
    /\ kw.keyword # None
    /\ Includes(ToLowerCase(FragmentText(f)), ToLowerCase(Val(kw.keyword)))

(* The non-blank fragments of the page that contain some keyword *)
Matching ==
    {i \in 1..Len(Fragments(ThePage)) :
        /\ ~Blank(Fragments(ThePage)[i])
        /\ \E j \in 1..Len(keywords) : Contained(keywords[j], Fragments(ThePage)[i])}

(* The k-th matching fragment in page order *)
NthMatching(k) ==
    Fragments(ThePage)[CHOOSE i \in Matching : Cardinality({m \in Matching : m <= i}) = k]

(* The first keyword in list order that the fragment contains *)
FirstContained(f) ==
    CHOOSE j \in 1..Len(keywords) :
        /\ Contained(keywords[j], f)
        /\ \A k \in 1..(j - 1) : ~Contained(keywords[k], f)

(* v is num/den rounded to the nearest integer, a tie going up (den > 0) *)
NearestHalfUp(v, num, den) ==
    /\ 2 * den * v - den <= 2 * num
    /\ 2 * num < 2 * den * v + den

EqualFraction(a, b) == a.n * b.d = b.n * a.d

----------------------------------------------------------------------------
(* C1: every result of extractCoordinates carries the position and size of *)
(* its fragment scaled into the template: x = round(templateX + rawX *     *)
(* scaleX), y = round(templateY + rawY * scaleY) with the raw y taken as   *)
(* it is (never flipped against the page height), width = round(rawWidth * *)
(* scaleX), height = round(rawHeight * scaleY) with rawHeight = TS[1] or   *)
(* 12 without TS, scaleX = templateWidth / page.Width, round = nearest     *)
(* integer with ties up; page width 612, templateWidth 210, templateX 0    *)
(* and rawX 100 give x = 34.                                               *)
C1_Coordinates ==
    Returned =>
        /\ Len(results) = Cardinality(Matching)
        /\ EqualFraction(Val(scale).x,
                         [n |-> template.templateWidth, d |-> ThePage.Width])
        /\ \A k \in 1..Len(results) :
            LET f == NthMatching(k)
                r == results[k]
                sx == Val(scale).x
                sy == Val(scale).y
                rawHeight == IF f.run.TS = None THEN 12 ELSE Val(f.run.TS)[2]
            IN  /\ NearestHalfUp(r.x, template.templateX * sx.d + f.item.x * sx.n, sx.d)
                /\ NearestHalfUp(r.y, template.templateY * sy.d + f.item.y * sy.n, sy.d)
                /\ NearestHalfUp(r.width, f.item.w * sx.n, sx.d)
                /\ NearestHalfUp(r.height, rawHeight * sy.n, sy.d)
                /\ (/\ ThePage.Width = 612
                    /\ template.templateWidth = 210
                    /\ template.templateX = 0
                    /\ f.item.x = 100) => r.x = 34

C1_Witness ==
    /\ Returned
    /\ Len(results) = 1
    /\ ThePage.Width = 612
    /\ template.templateWidth = 210
    /\ template.templateX = 0
    /\ template.templateHeight = Some(297)
    /\ NthMatching(1).item.x = 100
    /\ NthMatching(1).item.y = 700
    /\ results[1].x = 34
    /\ results[1].y = 263

(* C2: a non-blank fragment yields no result when it contains no keyword   *)
(* and otherwise exactly one, under the field of the first keyword in list *)
(* order that it contains; later keywords are not tried for it.            *)
C2_FirstKeywordWins ==
    Returned =>
        /\ Len(results) = Cardinality(Matching)
        /\ \A k \in 1..Len(results) :
            /\ results[k].field = keywords[FirstContained(NthMatching(k))].field
            /\ results[k].matchText = FragmentText(NthMatching(k))

C2_Witness ==
    /\ Returned
    /\ Len(keywords) = 2
    /\ keywords[1].field # keywords[2].field
    /\ \E i \in Matching :
        /\ Contained(keywords[1], Fragments(ThePage)[i])
        /\ Contained(keywords[2], Fragments(ThePage)[i])
    /\ \E i \in 1..Len(Fragments(ThePage)) :
        /\ ~Blank(Fragments(ThePage)[i])
        /\ i \notin Matching

(* C3: the field-keyed object of generateJSON and generateArray has one    *)
(* record per distinct field of the list, and the record of a field is     *)
(* that of its last occurrence in the list.                                *)
C3_LastWriteWins ==
    mapping # <<>> =>
        /\ \A i, j \in 1..Len(mapping) : mapping[i].key = mapping[j].key => i = j
        /\ {mapping[i].key : i \in 1..Len(mapping)}
                = {results[k].field : k \in 1..Len(results)}
        /\ \A i \in 1..Len(mapping) :
            LET last == CHOOSE k \in 1..Len(results) :
                            /\ results[k].field = mapping[i].key
                            /\ \A m \in (k + 1)..Len(results) :
                                    results[m].field # mapping[i].key
                r == results[last]
            IN  mapping[i].value =
                    [x |-> r.x, y |-> r.y, width |-> r.width, height |-> r.height,
                     matchText |-> r.matchText]

C3_Witness ==
    /\ mapping # <<>>
    /\ options.format = "array"
    /\ fs.output # None
    /\ Len(results) = 2
    /\ results[1].field = results[2].field
    /\ results[1] # results[2]

(* C4: with templateHeight undefined, extractCoordinates and listAllText   *)
(* use scaleY = scaleX = templateWidth / page.Width, whatever the page     *)
(* height.                                                                 *)
C4_UniformScale ==
    (scale # None /\ template.templateHeight = None) =>
        /\ EqualFraction(Val(scale).y, Val(scale).x)
        /\ EqualFraction(Val(scale).y,
                         [n |-> template.templateWidth, d |-> ThePage.Width])

C4_Witness ==
    /\ scale # None
    /\ cmd = "scan"
    /\ template.templateHeight = None
    /\ ThePage.Width # ThePage.Height

(* C5: whenever a templateHeight is given, 0 included, scaleY =            *)
(* templateHeight / page.Height; scaleY = scaleX only when none was given. *)
C5_GivenHeightUsed ==
    scale # None =>
        IF options.templateHeight # None
        THEN EqualFraction(Val(scale).y,
                           [n |-> ParseFloat(Val(options.templateHeight)),
                            d |-> ThePage.Height])
        ELSE EqualFraction(Val(scale).y, Val(scale).x)

(* C6: when extraction completes without error and nothing matched, the    *)
(* extract command exits non-zero and never writes the --output file.      *)
C6_NoMatchFails ==
    /\ (cmd = "extract" /\ pc = "save") => results # <<>>
    /\ (/\ cmd = "extract"
        /\ pc = "exited"
        /\ pdfData # None
        /\ stderr = <<>>
        /\ results = <<>>) =>
            /\ exitCode # None
            /\ exitCode # Some(0)
            /\ fs.output = None

C6_Witness ==
    /\ cmd = "extract"
    /\ pc = "exited"
    /\ pdfData # None
    /\ stderr = <<>>
    /\ results = <<>>
    /\ options.output
    /\ fs.writable
    /\ options.format = "array"

(* C7: a failed run of extract (PDF missing, keywords file not loaded,     *)
(* parser error, no pages, any thrown error) exits with code 1 and has     *)
(* written no output file; the file is written only by a run that has the  *)
(* complete result set, and that run exits with code 0.                    *)
KeywordsFileBad ==
    \/ ~fs.keywordsFile.exists
    \/ ~fs.keywordsFile.validJSON
    \/ fs.keywordsFile.isNull
    \/ fs.keywordsFile.keywords.type # "array"

Failed ==
    \/ ~fs.pdfExists
    \/ KeywordsFileBad
    \/ fs.pdf.parserError
    \/ fs.pdf.data.Pages = None
    \/ fs.pdf.data.Pages = Some(<<>>)
    \/ stderr # <<>>

C7_FailureIsTerminal ==
    cmd = "extract" =>
        /\ pc # "exited" => (exitCode = None /\ fs.output = None)
        /\ pc = "exited" => exitCode \in {Some(0), Some(1)}
        /\ (pc = "exited" /\ Failed) => (exitCode = Some(1) /\ fs.output = None)
        /\ fs.output # None =>
            /\ exitCode = Some(0)
            /\ results # <<>>
            /\ Len(results) = Cardinality(Matching)

C7_Witness ==
    /\ cmd = "extract"
    /\ pc = "exited"
    /\ options.output
    /\ ~fs.writable
    /\ results # <<>>
    /\ exitCode = Some(1)

(* C8: the text saved with --format array has the fields and the x, y,     *)
(* width and height of the text saved with --format json, without the      *)
(* top-level coordinates key and without any matchText.                    *)
IsMatchText(enc, i) ==
    \/ enc[i] = Key("matchText")
    \/ i > 1 /\ enc[i - 1] = Key("matchText")

RECURSIVE WithoutMatchText(_, _)
WithoutMatchText(enc, i) ==
    IF i > Len(enc) THEN <<>>
    ELSE (IF IsMatchText(enc, i) THEN <<>> ELSE <<enc[i]>>)
            \o WithoutMatchText(enc, i + 1)

(* The value under the top-level coordinates key *)
Unwrapped(enc) == SubSeq(enc, 3, Len(enc) - 1)

C8_ArrayOmitsMatchText ==
    (cmd = "extract" /\ fs.output # None) =>
        IF options.format = "array"
        THEN Val(fs.output) = WithoutMatchText(Unwrapped(GenerateJSON(results)), 1)
        ELSE /\ Val(fs.output)[2] = Key("coordinates")
             /\ \E i \in 1..Len(Val(fs.output)) : Val(fs.output)[i] = Key("matchText")

(* C9: a fragment that is empty after trimming is never listed by          *)
(* listAllText and never yields a result in extractCoordinates, even when  *)
(* a keyword is the empty string.                                          *)
NonBlank == {i \in 1..Len(Fragments(ThePage)) : ~Blank(Fragments(ThePage)[i])}

C9_BlankFragmentsDropped ==
    /\ Returned =>
        /\ Len(results) <= Cardinality(NonBlank)
        /\ \A k \in 1..Len(results) : results[k].matchText # <<>>
    /\ Listed =>
        /\ Len(allText) = Cardinality(NonBlank)
        /\ \A k \in 1..Len(allText) : allText[k].text # <<>>

C9_Witness ==
    /\ Returned
    /\ \E i \in 1..Len(Fragments(ThePage)) : Blank(Fragments(ThePage)[i])
    /\ \E j \in 1..Len(keywords) : keywords[j].keyword = Some(<<>>)
    /\ results # <<>>

(* C10: loadKeywords fails exactly when the path does not exist, the       *)
(* content is not JSON, or the keywords member is missing or not an array; *)
(* then the keyword list is unchanged and extract exits with code 1        *)
(* without parsing the PDF; otherwise the list is the file's keywords in   *)
(* file order.                                                             *)
LoadFailed == pc = "exited" /\ stderr = <<"Error loading keywords">>

C10_LoadKeywords ==
    (cmd = "extract" /\ fs.pdfExists /\ pc \notin {"start", "loadKeywords"}) =>
        /\ LoadFailed <=> KeywordsFileBad
        /\ LoadFailed =>
            /\ keywords = <<>>
            /\ exitCode = Some(1)
            /\ template = None
            /\ pdfData = None
        /\ ~LoadFailed => keywords = fs.keywordsFile.keywords.elems

C10_Witness ==
    /\ cmd = "extract"
    /\ LoadFailed
    /\ fs.keywordsFile.validJSON
    /\ fs.keywordsFile.keywords.type = "string"
    /\ fs.keywordsFile.keywords.elems # <<>>

(* C11: loadKeywords validates no entry, and an entry without a keyword    *)
(* string never matches: it yields no result and the other entries are     *)
(* matched as if it were absent.                                           *)
Reported ==
    \E i \in 1..Len(stdout) :
        stdout[i] \in {"No matching keywords found.", "Found coordinates:"}

(* The parser answered with a page whose runs all decode *)
PageReadable ==
    /\ pdfData # None
    /\ ~NoPages(Val(pdfData))
    /\ \A i \in 1..Len(Fragments(ThePage)) : ~DecodeThrows(Fragments(ThePage)[i].run.T)

C11_MalformedEntryIgnored ==
    (/\ cmd = "extract"
     /\ pc \in {"report", "save", "exited"}
     /\ PageReadable) =>
        /\ keywords = fs.keywordsFile.keywords.elems
        /\ pc = "exited" => Reported
        /\ Len(results) = Cardinality(Matching)
        /\ \A k \in 1..Len(results) :
            results[k].field = keywords[FirstContained(NthMatching(k))].field

(* C12: a keyword matches a fragment when the text contains it with letter *)
(* case ignored, so changing the case of letters of the keyword or of the  *)
(* text never changes whether it matches; the matchText reported is the    *)
(* trimmed text in its original case.                                      *)
SameLetter(a, b) ==
    \/ a = b
    \/ {a, b} = {"a", "A"}
    \/ {a, b} = {"b", "B"}

(* The strings that differ from s in letter case only *)
CaseVariants(s) ==
    {v \in [1..Len(s) -> {"a", "A", "b", "B", " "}] :
        \A i \in 1..Len(s) : SameLetter(v[i], s[i])}

ContainsIgnoringCase(t, k) ==
    \E o \in 0..(Len(t) - Len(k)) : \A q \in 1..Len(k) : SameLetter(t[o + q], k[q])

(* The text of a non-blank fragment from its first to its last non-space *)
OriginalText(f) ==
    LET d == [i \in 1..Len(f.run.T) |-> IF f.run.T[i] = "%20" THEN " " ELSE f.run.T[i]]
        inked == {i \in 1..Len(d) : d[i] # " "}
        lo == CHOOSE i \in inked : \A m \in inked : i <= m
        hi == CHOOSE i \in inked : \A m \in inked : m <= i
    IN  SubSeq(d, lo, hi)

CaseMatching ==
    {i \in NonBlank :
        \E j \in 1..Len(keywords) :
            /\ keywords[j].keyword # None
            /\ ContainsIgnoringCase(OriginalText(Fragments(ThePage)[i]),
                                    Val(keywords[j].keyword))}

NthCaseMatching(k) ==
    Fragments(ThePage)[CHOOSE i \in CaseMatching :
                            Cardinality({m \in CaseMatching : m <= i}) = k]

(* The test of line 96 for one keyword string *)
LoopMatches(text, k) == KeywordLoop(text, <<[field |-> "f1", keyword |-> Some(k)]>>, 1) = 1

C12_CaseInsensitive ==
    (cmd = "extract" /\ pc = "report") =>
        /\ Len(results) = Cardinality(CaseMatching)
        /\ \A k \in 1..Len(results) :
            results[k].matchText = OriginalText(NthCaseMatching(k))
        /\ \A i \in NonBlank : \A j \in 1..Len(keywords) :
            keywords[j].keyword # None =>
                LET text == OriginalText(Fragments(ThePage)[i])
                    keyword == Val(keywords[j].keyword)
                    matches == LoopMatches(text, keyword)
                IN  \A tv \in CaseVariants(text) : \A kv \in CaseVariants(keyword) :
                        LoopMatches(tv, kv) <=> matches

C12_Witness ==
    /\ cmd = "extract"
    /\ pc = "report"
    /\ keywords = <<[field |-> "f2", keyword |-> Some(<<"A", "b">>)]>>
    /\ Len(Fragments(ThePage)) = 2
    /\ Len(results) = 1
    /\ results[1].matchText = <<"a", "B">>

(* C13: parsing the text generateJSON returns, as saved to the --output    *)
(* file, gives an object whose coordinates member equals the field-keyed   *)
(* mapping of the results: the same fields, each with the same x, y,       *)
(* width, height and matchText.                                            *)

(* JSON.parse of a token sequence: [v, next], the value that starts at     *)
(* token i and the index behind it; an object is the sequence of its       *)
(* members, a repeated key keeping its last value.                         *)
RECURSIVE ParseValue(_, _)
RECURSIVE ParseMembers(_, _, _)
ParseValue(enc, i) ==
    IF enc[i].kind = "number" THEN [v |-> enc[i].n, next |-> i + 1]
    ELSE IF enc[i].kind = "string" THEN [v |-> enc[i].t, next |-> i + 1]
    ELSE ParseMembers(enc, i + 1, <<>>)

ParseMembers(enc, i, acc) ==
    IF enc[i] = Punct("}") THEN [v |-> acc, next |-> i + 1]
    ELSE LET member == ParseValue(enc, i + 1)
         IN  ParseMembers(enc, member.next, Assign(acc, enc[i].s, member.v))

JSONParse(enc) == ParseValue(enc, 1).v

KeysOf(obj) == {obj[i].key : i \in 1..Len(obj)}

Get(obj, key) == obj[CHOOSE i \in 1..Len(obj) : obj[i].key = key].value

Printed == \E i \in 1..Len(stdout) : stdout[i] = "Found coordinates:"

C14_StagesInSequence ==
    cmd = "extract" =>
        /\ pc \in {"start", "loadKeywords"} =>
                (keywords = <<>> /\ template = None /\ stdout = <<>>)
        /\ (pc \in {"callExtract", "parsing", "matching", "report", "save"}
                \/ template # None \/ pdfData # None) =>
                (keywords = fs.keywordsFile.keywords.elems /\ ~KeywordsFileBad)
        /\ pc \in {"start", "loadKeywords", "callExtract", "parsing"} =>
                (pdfData = None /\ scale = None /\ results = <<>>)
        /\ (scale # None \/ results # <<>>) => pdfData # None
        /\ pc \in {"start", "loadKeywords", "callExtract", "parsing", "matching",
                   "report"} => (~Reported /\ mapping = <<>>)
        /\ Printed =>
                (/\ pc \in {"save", "exited"}
                 /\ results # <<>>
                 /\ Len(results) = Cardinality(Matching))
        /\ pc # "exited" => fs.output = None
        /\ fs.output # None => Printed

C14_Witness ==
    /\ cmd = "extract"
    /\ pc = "exited"
    /\ exitCode = Some(0)
    /\ fs.output # None
    /\ Printed
    /\ Len(keywords) = 2
    /\ Len(results) = 2

(* C15: listAllText needs no keywords and lists every non-blank fragment   *)
(* of page 1 in page order; for the same PDF and template parameters every *)
(* result of extractCoordinates has the text, x and y of the entry         *)
(* listAllText gives for its fragment.                                     *)
NthNonBlank(k) ==
    Fragments(ThePage)[CHOOSE i \in NonBlank :
                            Cardinality({m \in NonBlank : m <= i}) = k]

(* The place among the non-blank fragments of the k-th matching fragment *)
ListedPlace(k) ==
    LET i == CHOOSE m \in Matching : Cardinality({n \in Matching : n <= m}) = k
    IN  Cardinality({n \in NonBlank : n <= i})

C15_ScanAgreesWithExtract ==
    /\ Listed =>
        /\ keywords = <<>>
        /\ Len(allText) = Cardinality(NonBlank)
        /\ \A k \in 1..Len(allText) : allText[k].text = OriginalText(NthNonBlank(k))
    /\ (cmd = "extract" /\ pc = "report") =>
        LET listed == ListAllText(Val(pdfData), template)
        IN  /\ ~listed.threw
            /\ Len(results) = Cardinality(Matching)
            /\ \A k \in 1..Len(results) :
                LET entry == listed.results[ListedPlace(k)]
                IN  /\ entry.text = results[k].matchText
                    /\ entry.x = results[k].x
                    /\ entry.y = results[k].y

C15_Witness ==
    /\ cmd = "extract"
    /\ pc = "report"
    /\ Cardinality(NonBlank) = 2
    /\ Matching = {2}
    /\ Len(results) = 1
    /\ results[1].y = 240

====
